---- MODULE Spec2Model ----
(***************************************************************************)
(* A model of zotero_ai_tagger.py: the ZoteroTagger object, its            *)
(* construction, the tag-vocabulary store and its file, and the walk of    *)
(* process_library over the catalog's top-level items.                     *)
(*                                                                         *)
(* Text is modelled character by character: a string is a sequence of     *)
(* character names ("LF", "CR", "SP", "A", "a"), ordered by code point as  *)
(* Python orders str.  The catalog, the network and the language model are *)
(* the environment: what they return is drawn when the call is made, and   *)
(* each call may raise.  The catalog returns well-formed items (every tag  *)
(* entry carries 'tag'), and a save that opened the file completes.  The   *)
(* text of the prompt and the excerpts that go into it are not modelled:   *)
(* nothing the program keeps depends on them.                              *)
(***************************************************************************)
EXTENDS Integers, Sequences, FiniteSets, TLC

\* ------------------------------------------------------------------ bounds
MaxItems == 2        \* items returned by zot.top()
MaxTagEntries == 2   \* tag entries of an item (update specification)
MaxNewTags == 3      \* length of a suggested-tag list (update specification)
MaxApplications == 2 \* applications of one list to one item (update specification)

\* -------------------------------------------------------------------- text
Chars == {"LF", "CR", "SP", "A", "a"}

\* The code point of a character (Python compares str by code point).
Ord(c) ==
    CASE c = "LF" -> 10
      [] c = "CR" -> 13
      [] c = "SP" -> 32
      [] c = "A" -> 65
      [] c = "a" -> 97

\* str.strip() removes these from both ends.
IsSpace(c) == c \in {"LF", "CR", "SP"}

Range(s) == {s[k] : k \in 1..Len(s)}

RECURSIVE LStrip(_)
LStrip(s) ==
    IF s # <<>> /\ IsSpace(Head(s)) THEN LStrip(Tail(s)) ELSE s

RECURSIVE RStrip(_)
RStrip(s) ==
    IF s # <<>> /\ IsSpace(s[Len(s)]) THEN RStrip(SubSeq(s, 1, Len(s) - 1)) ELSE s

Strip(s) == RStrip(LStrip(s))

\* text.split('\n'): the pieces between line feeds, empty ones included.
RECURSIVE SplitLF(_, _)
SplitLF(s, cur) ==
    IF s = <<>> THEN <<cur>>
    ELSE IF Head(s) = "LF" THEN <<cur>> \o SplitLF(Tail(s), <<>>)
    ELSE SplitLF(Tail(s), Append(cur, Head(s)))

\* Iterating a file opened in text mode with the default newline=None: a line
\* ends at "\n", "\r" or "\r\n"; no line follows the last terminator.
RECURSIVE FileLines(_, _)
FileLines(s, cur) ==
    IF s = <<>> THEN (IF cur = <<>> THEN <<>> ELSE <<cur>>)
    ELSE IF Head(s) = "LF" THEN <<cur>> \o FileLines(Tail(s), <<>>)
    ELSE IF Head(s) = "CR" THEN
        <<cur>> \o FileLines(IF Len(s) > 1 /\ s[2] = "LF" THEN Tail(Tail(s)) ELSE Tail(s), <<>>)
    ELSE FileLines(Tail(s), Append(cur, Head(s)))

\* [x.strip() for x in pieces if x.strip()]
RECURSIVE StripNonEmpty(_)
StripNonEmpty(pieces) ==
    IF pieces = <<>> THEN <<>>
    ELSE IF Strip(Head(pieces)) = <<>> THEN StripNonEmpty(Tail(pieces))
    ELSE <<Strip(Head(pieces))>> \o StripNonEmpty(Tail(pieces))

\* Python's str order: by code point, a proper prefix first.
RECURSIVE StrLess(_, _)
StrLess(s, t) ==
    IF t = <<>> THEN FALSE
    ELSE IF s = <<>> THEN TRUE
    ELSE IF Head(s) # Head(t) THEN Ord(Head(s)) < Ord(Head(t))
    ELSE StrLess(Tail(s), Tail(t))

\* sorted(S)
RECURSIVE Sorted(_)
Sorted(S) ==
    IF S = {} THEN <<>>
    ELSE LET m == CHOOSE x \in S : \A y \in S \ {x} : StrLess(x, y)
         IN <<m>> \o Sorted(S \ {m})


\* ------------------------------------------------------- vocabulary store
\* get_claude_suggestions: the response's tag candidates, in order.
ParseTags(text) == StripNonEmpty(SplitLF(text, <<>>))

\* A vocabulary update that replaces the set instead of adding to it.
VocabAfterReplacing(existing, suggested) == Range(suggested)

\* self.existing_tags.update(suggested_tags)
VocabAfter(existing, suggested) == existing \cup Range(suggested)

RECURSIVE JoinLines(_)
JoinLines(tags) ==
    IF tags = <<>> THEN <<>>
    ELSE Head(tags) \o <<"LF">> \o JoinLines(Tail(tags))

\* save_existing_tags: what open(..., 'w') and the writes leave in the file.
FileText(tags) == JoinLines(Sorted(tags))

\* load_existing_tags: the set read back from a file's text.
LoadTags(text) == Range(StripNonEmpty(FileLines(text, <<>>)))

\* ----------------------------------------------------------- environment
EnvVars == <<"ZOTERO_LIBRARY_ID", "ZOTERO_LIBRARY_TYPE", "ZOTERO_API_KEY", "ANTHROPIC_API_KEY">>

EnvStates == {"unset", "empty", "set"}

\* An environment lookup that applies the 'group' default to no variable.
EnvValueNoDefault(e, k) == IF e[k] = "set" THEN "value" ELSE ""

\* os.getenv(k) / os.getenv('ZOTERO_LIBRARY_TYPE', 'group'); None is modelled
\* as "", both being falsy.
EnvValue(e, k) ==
    IF e[k] = "set" THEN "value"
    ELSE IF e[k] = "unset" /\ k = "ZOTERO_LIBRARY_TYPE" THEN "group"
    ELSE ""

RECURSIVE MissingFrom(_, _)
MissingFrom(e, names) ==
    IF names = <<>> THEN <<>>
    ELSE (IF EnvValue(e, Head(names)) = "" THEN <<Head(names)>> ELSE <<>>)
         \o MissingFrom(e, Tail(names))

\* missing = [k for k, v in required_vars.items() if not v]
Missing(e) == MissingFrom(e, EnvVars)

\* ---------------------------------------------------------------- catalog
\* A child of an item: a note carries no contentType, an attachment may or
\* may not carry a url.
Note == [hasContentType |-> FALSE, contentType |-> "", hasUrl |-> FALSE, url |-> ""]
Html == [hasContentType |-> TRUE, contentType |-> "text/html", hasUrl |-> TRUE, url |-> "H"]
Pdf == [hasContentType |-> TRUE, contentType |-> "application/pdf", hasUrl |-> TRUE, url |-> "P"]
PdfStored == [hasContentType |-> TRUE, contentType |-> "application/pdf", hasUrl |-> TRUE, url |-> ""]

ChildLists == {<<>>, <<Pdf>>, <<Html, Pdf>>, <<Note, Pdf>>, <<PdfStored>>, <<Html>>}

\* The loop over the attachments: the first PDF child's url; a child without
\* contentType raises KeyError, which the except clause swallows.
RECURSIVE FirstPdfUrl(_)
FirstPdfUrl(children) ==
    IF children = <<>> THEN "None"
    ELSE IF ~Head(children).hasContentType THEN "None"
    ELSE IF Head(children).contentType = "application/pdf" /\ Head(children).hasUrl
         THEN Head(children).url
    ELSE FirstPdfUrl(Tail(children))

\* metadata['pdf_attachment'] after the try block of get_document_metadata.
PdfAttachment(children, childrenRaises) ==
    IF childrenRaises THEN "None" ELSE FirstPdfUrl(children)

\* bool(metadata['pdf_attachment'])
HasPdf(pdf_attachment) == pdf_attachment \notin {"None", ""}

\* The item has a PDF attachment in the catalog.
PdfAttached(children) ==
    \E k \in 1..Len(children) :
        children[k].hasContentType /\ children[k].contentType = "application/pdf"

\* extract_text_from_webpage: whether the request is made.
ShouldFetchUrl(opts, has_pdf) ==
    opts.url_always \/ (opts.url_fallback /\ ~has_pdf)

\* A walker that skips nothing.
SkipsNone(title) == FALSE

\* if not metadata['title']: continue
SkipsItem(title) == title = ""

\* An updater that appends every suggested tag.
RECURSIVE MergeTagsUnchecked(_, _)
MergeTagsUnchecked(current, new_tags) ==
    IF new_tags = <<>> THEN current
    ELSE MergeTagsUnchecked(Append(current, [tag |-> Head(new_tags)]), Tail(new_tags))

\* An updater that rebuilds the list from the suggested tags.
MergeTagsRebuilt(current, new_tags) == MergeTagsUnchecked(<<>>, new_tags)

\* update_item_tags, the loop: append {'tag': tag} unless a current entry
\* carries that tag.
RECURSIVE MergeTags(_, _)
MergeTags(current, new_tags) ==
    IF new_tags = <<>> THEN current
    ELSE IF \E k \in 1..Len(current) : current[k].tag = Head(new_tags)
         THEN MergeTags(current, Tail(new_tags))
    ELSE MergeTags(Append(current, [tag |-> Head(new_tags)]), Tail(new_tags))


\* ------------------------------------------------------------------ inputs
Titles == {"", "T"}

Urls == {"", "U"}

\* Texts the language model may answer with.
Responses ==
    { <<"A", "LF", "a">>,
      <<"SP", "A", "CR", "LF", "LF", "SP">>,
      <<"A", "CR", "a">>,
      <<"a", "LF", "a">>,
      <<"SP", "LF">> }

\* Tag lists an item may carry in the catalog.
CatalogTagLists ==
    { <<>>,
      <<[tag |-> <<"A">>, type |-> 1]>>,
      <<[tag |-> <<"a">>], [tag |-> <<"a">>]>> }

\* What the tags file may hold when the program starts.
InitialFiles ==
    { [exists |-> FALSE, text |-> <<>>],
      [exists |-> TRUE, text |-> <<"a", "CR", "LF", "LF", "SP", "A", "SP">>] }

NoFile == [exists |-> FALSE, text |-> <<>>]

NoMetadata == [title |-> "", url |-> "", key |-> 0, pdf_attachment |-> "None"]

\* ------------------------------------------------------------------- state
VARIABLES
    env,            \* the process environment after load_dotenv()
    options,        \* ProcessingOptions; tags_file: whether a path is given
    tagsFile,       \* the tags file on disk
    pc,             \* where the program is
    error,          \* the names in the ValueError raised by __init__
    catalogCalled,  \* whether any catalog operation was called in this run
    existing_tags,  \* self.existing_tags
    total_items,    \* len(items)
    i,              \* the loop's index: items started so far
    visited,        \* the keys of the items started, in order
    metadata,       \* the current item's metadata record
    pdfAttached,    \* whether the current item has a PDF child in the catalog
    suggested_tags, \* what get_claude_suggestions returned for the current item
    suggestOk,      \* whether that call returned the parsed list
    webFetched,     \* whether the item's URL was requested
    pdfFetched,     \* whether the item's PDF was requested
    fetchedTags,    \* the tag list zot.item() returned
    catalogTags,    \* the tag list the catalog holds for the item updated last
    updateOutcome,  \* how update_item_tags ended for the current item
    log,            \* the current item's log lines
    returnedTags,   \* every tag a suggestion call of this run has returned
    written,        \* the vocabulary save_existing_tags wrote last
    skippedKeys,    \* the keys of the items skipped for an empty title
    lastSuggestKey, \* the key of the item the suggestion step was called for last
    lastUpdateKey,  \* the key of the item the update step was called for last
    failures,       \* whether a call made for an item of this run has raised
    applied,        \* update specification: successful applications so far
    afterFirst      \* update specification: the tag list after the first one

vars ==
    << env, options, tagsFile, pc, error, catalogCalled, existing_tags,
       total_items, i, visited, metadata, pdfAttached, suggested_tags, suggestOk,
       webFetched, pdfFetched, fetchedTags, catalogTags, updateOutcome, log,
       returnedTags, written, skippedKeys, lastSuggestKey, lastUpdateKey,
       failures, applied, afterFirst >>

\* What a run holds in memory, and what the model records of it.
runVars ==
    << error, catalogCalled, existing_tags, total_items, i, visited, returnedTags,
       skippedKeys, lastSuggestKey, lastUpdateKey, failures >>

\* What belongs to the item at hand.
itemVars ==
    << metadata, pdfAttached, suggested_tags, suggestOk, webFetched, pdfFetched,
       fetchedTags, catalogTags, updateOutcome, log >>

updVars == << applied, afterFirst >>

FreshRun ==
    /\ error = <<>>
    /\ catalogCalled = FALSE
    /\ existing_tags = {}
    /\ total_items = 0
    /\ i = 0
    /\ visited = <<>>
    /\ returnedTags = {}
    /\ skippedKeys = {}
    /\ lastSuggestKey = 0
    /\ lastUpdateKey = 0
    /\ failures = FALSE

\* The run's state set back to FreshRun.
ResetRun ==
    /\ error' = <<>>
    /\ catalogCalled' = FALSE
    /\ existing_tags' = {}
    /\ total_items' = 0
    /\ i' = 0
    /\ visited' = <<>>
    /\ returnedTags' = {}
    /\ skippedKeys' = {}
    /\ lastSuggestKey' = 0
    /\ lastUpdateKey' = 0
    /\ failures' = FALSE

FreshItem ==
    /\ metadata = NoMetadata
    /\ pdfAttached = FALSE
    /\ suggested_tags = <<>>
    /\ suggestOk = FALSE
    /\ webFetched = FALSE
    /\ pdfFetched = FALSE
    /\ fetchedTags = <<>>
    /\ catalogTags = <<>>
    /\ updateOutcome = "none"
    /\ log = <<>>

\* The item's state set back to FreshItem.
ResetItem ==
    /\ metadata' = NoMetadata
    /\ pdfAttached' = FALSE
    /\ suggested_tags' = <<>>
    /\ suggestOk' = FALSE
    /\ webFetched' = FALSE
    /\ pdfFetched' = FALSE
    /\ fetchedTags' = <<>>
    /\ catalogTags' = <<>>
    /\ updateOutcome' = "none"
    /\ log' = <<>>

Init ==
    /\ env \in [Range(EnvVars) -> EnvStates]
    /\ options \in [url_fallback : BOOLEAN, url_always : BOOLEAN,
                    parse_pdf : BOOLEAN, tags_file : BOOLEAN]
    /\ tagsFile \in InitialFiles
    /\ (~options.tags_file => tagsFile = NoFile)
    /\ pc = "start"
    /\ written = [valid |-> FALSE, tags |-> {}]
    /\ FreshRun
    /\ FreshItem
    /\ applied = 0
    /\ afterFirst = <<>>


\* ----------------------------------------------------------------- actions
\* ZoteroTagger.__init__: validate the environment, then load_existing_tags.
Construct ==
    /\ pc = "start"
    /\ IF Missing(env) # <<>>
       THEN /\ pc' = "failed"
            /\ error' = Missing(env)
            /\ UNCHANGED existing_tags
       ELSE /\ pc' = "ready"
            /\ error' = <<>>
            /\ existing_tags' = IF options.tags_file /\ tagsFile.exists
                                THEN LoadTags(tagsFile.text)
                                ELSE {}
    /\ UNCHANGED << env, options, tagsFile, catalogCalled, total_items, i, visited,
                    returnedTags, written, skippedKeys, lastSuggestKey,
                    lastUpdateKey, failures >>
    /\ UNCHANGED itemVars
    /\ UNCHANGED updVars

\* process_library, before the loop: items = self.zot.top(limit=limit).
Top ==
    /\ pc = "ready"
    /\ catalogCalled' = TRUE
    /\ \/ /\ pc' = "aborted"
          /\ UNCHANGED total_items
       \/ \E n \in 0..MaxItems :
            /\ total_items' = n
            /\ pc' = IF n = 0 THEN "done" ELSE "loop"
    /\ UNCHANGED << env, options, tagsFile, error, existing_tags, i, visited,
                    returnedTags, written, skippedKeys, lastSuggestKey,
                    lastUpdateKey, failures >>
    /\ UNCHANGED itemVars
    /\ UNCHANGED updVars

\* Whether the loop over the children meets a child without contentType before
\* it finds a PDF with a url.
RECURSIVE ScanRaises(_)
ScanRaises(children) ==
    IF children = <<>> THEN FALSE
    ELSE IF ~Head(children).hasContentType THEN TRUE
    ELSE IF Head(children).contentType = "application/pdf" /\ Head(children).hasUrl
         THEN FALSE
    ELSE ScanRaises(Tail(children))

\* The head of the loop body: get_document_metadata for the next item, the two
\* progress lines, and the test of the title.
GetDocumentMetadata ==
    /\ pc = "loop"
    /\ i' = i + 1
    /\ visited' = Append(visited, i + 1)
    /\ catalogCalled' = TRUE
    /\ \E title \in Titles, url \in Urls, children \in ChildLists, raises \in BOOLEAN :
         LET caught == raises \/ ScanRaises(children)
         IN /\ metadata' = [title |-> title, url |-> url, key |-> i + 1,
                            pdf_attachment |-> PdfAttachment(children, raises)]
            /\ pdfAttached' = PdfAttached(children)
            /\ failures' = (failures \/ caught)
            /\ log' = (IF caught THEN <<"Error getting attachments">> ELSE <<>>)
                      \o <<"Processing item", "Item type">>
                      \o (IF SkipsItem(title) THEN <<"Skipping item with no title">> ELSE <<>>)
            /\ pc' = IF SkipsItem(title) THEN "skipped" ELSE "suggest"
            /\ skippedKeys' = IF title = "" THEN skippedKeys \cup {i + 1} ELSE skippedKeys
    /\ UNCHANGED << env, options, tagsFile, error, existing_tags, total_items,
                    returnedTags, written, lastSuggestKey, lastUpdateKey >>
    /\ UNCHANGED << suggested_tags, suggestOk, webFetched, pdfFetched, fetchedTags,
                    catalogTags, updateOutcome >>
    /\ UNCHANGED updVars

\* get_claude_suggestions, and the walker's branch on its result.
GetClaudeSuggestions ==
    /\ pc = "suggest"
    /\ lastSuggestKey' = metadata.key
    /\ LET has_pdf == HasPdf(metadata.pdf_attachment)
       IN /\ webFetched' = (metadata.url # "" /\ ShouldFetchUrl(options, has_pdf))
          /\ pdfFetched' = (has_pdf /\ options.parse_pdf)
    /\ \/ \* self.anthropic.messages.create raises, or the response has no text
          /\ suggested_tags' = <<>>
          /\ suggestOk' = FALSE
          /\ failures' = TRUE
          /\ UNCHANGED << existing_tags, tagsFile, written, returnedTags >>
       \/ \E text \in Responses :
            LET parsed == ParseTags(text)
                vocab == VocabAfter(existing_tags, parsed)
            IN /\ existing_tags' = vocab
               /\ \/ \* no tags file: save_existing_tags does nothing
                     /\ ~options.tags_file
                     /\ suggested_tags' = parsed
                     /\ suggestOk' = TRUE
                     /\ returnedTags' = returnedTags \cup Range(parsed)
                     /\ UNCHANGED << tagsFile, written, failures >>
                  \/ \* the file is written
                     /\ options.tags_file
                     /\ tagsFile' = [exists |-> TRUE, text |-> FileText(vocab)]
                     /\ written' = [valid |-> TRUE, tags |-> vocab]
                     /\ suggested_tags' = parsed
                     /\ suggestOk' = TRUE
                     /\ returnedTags' = returnedTags \cup Range(parsed)
                     /\ UNCHANGED failures
                  \/ \* open() raises: caught by the except clause, [] returned
                     /\ options.tags_file
                     /\ suggested_tags' = <<>>
                     /\ suggestOk' = FALSE
                     /\ failures' = TRUE
                     /\ UNCHANGED << tagsFile, written, returnedTags >>
    /\ log' = log \o (IF suggestOk' THEN <<>> ELSE <<"Error getting Claude suggestions">>)
                  \o (IF suggested_tags' # <<>>
                      THEN <<"Suggested tags", "Existing tags">>
                      ELSE <<"No tags were suggested">>)
    /\ pc' = IF suggested_tags' # <<>> THEN "update" ELSE "sleep"
    /\ UNCHANGED << env, options, error, catalogCalled, total_items, i, visited,
                    skippedKeys, lastUpdateKey >>
    /\ UNCHANGED << metadata, pdfAttached, fetchedTags, catalogTags, updateOutcome >>
    /\ UNCHANGED updVars

\* update_item_tags on an item whose catalog tag list is current.
UpdateItemTags(current, new_tags) ==
    /\ catalogCalled' = TRUE
    /\ \/ \* self.zot.item raises
          /\ updateOutcome' = "item raised"
          /\ fetchedTags' = <<>>
          /\ catalogTags' = current
       \/ \* self.zot.update_item raises
          /\ updateOutcome' = "update_item raised"
          /\ fetchedTags' = current
          /\ catalogTags' = current
       \/ /\ updateOutcome' = "written"
          /\ fetchedTags' = current
          /\ catalogTags' = MergeTags(current, new_tags)

\* An updater without its except clause: the exception leaves the walk.
AfterUpdateUncaught(outcome) == IF outcome = "written" THEN "sleep" ELSE "aborted"

\* Where the walker is after update_item_tags: the except clause logs every
\* exception and the call returns.
AfterUpdate(outcome) == "sleep"

\* The walker's call of update_item_tags and the line it logs after it.
UpdateItem ==
    /\ pc = "update"
    /\ lastUpdateKey' = metadata.key
    /\ \E current \in CatalogTagLists : UpdateItemTags(current, suggested_tags)
    /\ failures' = (failures \/ updateOutcome' # "written")
    /\ log' = log \o (IF updateOutcome' # "written" THEN <<"Error updating item">> ELSE <<>>)
                  \o <<"Tags updated successfully">>
    /\ pc' = AfterUpdate(updateOutcome')
    /\ UNCHANGED << env, options, tagsFile, error, existing_tags, total_items, i,
                    visited, returnedTags, written, skippedKeys, lastSuggestKey >>
    /\ UNCHANGED << metadata, pdfAttached, suggested_tags, suggestOk, webFetched,
                    pdfFetched >>
    /\ UNCHANGED updVars

\* The end of an iteration: the metadata record is dropped and the loop goes on.
NextItem ==
    /\ pc' = IF i = total_items THEN "done" ELSE "loop"
    /\ ResetItem
    /\ UNCHANGED << env, options, tagsFile, written >>
    /\ UNCHANGED runVars
    /\ UNCHANGED updVars

\* time.sleep(1) at the end of the try block.
Sleep ==
    /\ pc = "sleep"
    /\ NextItem

\* continue, for an item without a title.
Continue ==
    /\ pc = "skipped"
    /\ NextItem

\* The program is started again with the same environment, options and file.
NewRun ==
    /\ pc = "done"
    /\ pc' = "start"
    /\ ResetRun
    /\ UNCHANGED << env, options, tagsFile, written >>
    /\ UNCHANGED itemVars
    /\ UNCHANGED updVars

Next ==
    \/ Construct
    \/ Top
    \/ GetDocumentMetadata
    \/ GetClaudeSuggestions
    \/ UpdateItem
    \/ Sleep
    \/ Continue
    \/ NewRun

Spec == Init /\ [][Next]_vars

\* The program is one thread that runs on as long as its calls return.
LiveSpec == Spec /\ WF_vars(Next)


\* ------------------------------------------------- the update specification
\* update_item_tags applied again and again to one item with one list.
TagNames == {<<"A">>, <<"a">>, <<"A", "a">>}

TagEntries == [tag : TagNames] \cup [tag : TagNames, type : {1}]

SeqsUpTo(S, n) == UNION {[1..k -> S] : k \in 0..n}

InitUpdate ==
    /\ env = [k \in Range(EnvVars) |-> "set"]
    /\ options = [url_fallback |-> FALSE, url_always |-> FALSE,
                  parse_pdf |-> FALSE, tags_file |-> FALSE]
    /\ tagsFile = NoFile
    /\ written = [valid |-> FALSE, tags |-> {}]
    /\ pc = "update"
    /\ error = <<>>
    /\ catalogCalled = TRUE
    /\ total_items = 1
    /\ i = 1
    /\ visited = <<1>>
    /\ metadata = [title |-> "T", url |-> "", key |-> 1, pdf_attachment |-> "None"]
    /\ pdfAttached = FALSE
    /\ suggested_tags \in SeqsUpTo(TagNames, MaxNewTags) \ {<<>>}
    /\ suggestOk = TRUE
    /\ existing_tags = Range(suggested_tags)
    /\ returnedTags = Range(suggested_tags)
    /\ webFetched = FALSE
    /\ pdfFetched = FALSE
    /\ fetchedTags = <<>>
    /\ catalogTags \in SeqsUpTo(TagEntries, MaxTagEntries)
    /\ updateOutcome = "none"
    /\ log = <<"Processing item", "Item type", "Suggested tags", "Existing tags">>
    /\ skippedKeys = {}
    /\ lastSuggestKey = 1
    /\ lastUpdateKey = 0
    /\ failures = FALSE
    /\ applied = 0
    /\ afterFirst = <<>>

Reapply ==
    /\ pc = "update"
    /\ applied < MaxApplications
    /\ UpdateItemTags(catalogTags, suggested_tags)
    /\ applied' = IF updateOutcome' = "written" THEN applied + 1 ELSE applied
    /\ afterFirst' = IF updateOutcome' = "written" /\ applied = 0
                     THEN catalogTags' ELSE afterFirst
    /\ lastUpdateKey' = metadata.key
    /\ UNCHANGED << env, options, tagsFile, written, pc, error, total_items, i,
                    visited, metadata, pdfAttached, suggested_tags, suggestOk,
                    existing_tags, returnedTags, webFetched, pdfFetched, log,
                    skippedKeys, lastSuggestKey, failures >>

NextUpdate == Reapply

SpecUpdate == InitUpdate /\ [][NextUpdate]_vars


\* ------------------------------------------------------------------ claims
TagsOf(entries) == {entries[k].tag : k \in 1..Len(entries)}

\* What a reader of the tags file finds in it.
PersistedVocabulary == IF tagsFile.exists THEN LoadTags(tagsFile.text) ELSE {}

\* C1: for an item whose title is empty, neither the suggestion step nor the
\* update step is ever called: no call is made for a key that was skipped, and
\* while the item at hand has an empty title the walker is in neither step and
\* holds no result of either.
C1_EmptyTitleNeverProcessed ==
    /\ lastSuggestKey \notin skippedKeys
    /\ lastUpdateKey \notin skippedKeys
    /\ (metadata.key # 0 /\ metadata.title = "")
          => /\ pc = "skipped"
             /\ metadata.key \in skippedKeys
             /\ ~suggestOk
             /\ updateOutcome = "none"

\* C1 witness: a walk that skipped its first item and updated its second.
C1_Witness ==
    /\ pc = "sleep"
    /\ skippedKeys = {1}
    /\ lastSuggestKey = 2
    /\ lastUpdateKey = 2

\* C2: no failure while handling an item leaves the walk: the items are started
\* in catalog order, a walk that ends has started every item the catalog
\* returned, the walk is aborted only by zot.top() raising, before any item,
\* and inside the loop the walker always has a next step.
C2_WalkContinues ==
    /\ visited = [k \in 1..i |-> k]
    /\ i <= total_items
    /\ (pc = "done" => i = total_items)
    /\ (pc = "aborted" => (i = 0 /\ ~failures))
    /\ (failures => pc \in {"skipped", "suggest", "update", "sleep", "loop", "done"})
    /\ (pc \in {"loop", "skipped", "suggest", "update", "sleep"} => ENABLED Next)

\* C2 witness: the walk is done, both items were started, and a call raised.
C2_Witness ==
    /\ pc = "done"
    /\ failures
    /\ visited = <<1, 2>>

\* C2, as progress: if every call returns, each item the catalog returned is
\* started.  Holds under LiveSpec.
C2_EveryItemVisited ==
    \A k \in 1..MaxItems :
        (pc = "loop" /\ k <= total_items) ~> (Len(visited) >= k /\ visited[k] = k)

\* C3: with a tags file configured, the persisted vocabulary holds every tag a
\* suggestion call of this run has returned.
C3_FileHoldsReturnedTags ==
    options.tags_file => returnedTags \subseteq PersistedVocabulary

\* C4: a suggestion call removes no tag from the vocabulary, and after one that
\* returns the parsed list every returned tag is in the vocabulary.
C4_SuggestedTagsJoinVocabulary ==
    [][ pc = "suggest" =>
          /\ existing_tags \subseteq existing_tags'
          /\ (suggestOk' => Range(suggested_tags') \subseteq existing_tags')
      ]_vars

\* C4 witness: a call returned its list while the vocabulary held other tags.
C4_Witness ==
    /\ pc = "update"
    /\ suggestOk
    /\ suggested_tags # <<>>
    /\ existing_tags \ Range(suggested_tags) # {}

\* C5: once a suggested-tag list has been applied to an item, applying the same
\* list again leaves the item's tag list as it was after the first application.
C5_UpdateIdempotent ==
    applied >= 1 => catalogTags = afterFirst

\* C5 witness: a list that repeats its first tag was applied twice, and the
\* item carries that tag once, in an entry the update appended.
C5_Witness ==
    /\ applied = 2
    /\ \E k \in 2..Len(suggested_tags) : suggested_tags[k] = suggested_tags[1]
    /\ Cardinality({m \in 1..Len(catalogTags) : catalogTags[m].tag = suggested_tags[1]}) = 1
    /\ catalogTags[Len(catalogTags)] = [tag |-> suggested_tags[1]]

\* C6, for an item that has a URL: the URL is requested exactly if url_always is
\* set, or url_fallback is set and the item has no PDF attachment.
C6_FetchPolicy ==
    (pc \in {"update", "sleep"} /\ metadata.url # "")
        => (webFetched <=> (options.url_always \/ (options.url_fallback /\ ~pdfAttached)))

\* C7: the list update_item_tags writes back starts with the fetched list,
\* entry for entry, and goes on with one {'tag': t} entry for each suggested tag
\* t that no fetched entry carries, in the order of their first suggestion.
C7_UpdateAdditive ==
    updateOutcome = "written" =>
        LET n == Len(fetchedTags)
            added == SubSeq(catalogTags, n + 1, Len(catalogTags))
            fresh == Range(suggested_tags) \ TagsOf(fetchedTags)
        IN /\ Len(catalogTags) >= n
           /\ SubSeq(catalogTags, 1, n) = fetchedTags
           /\ \A k \in 1..Len(added) : added[k] = [tag |-> added[k].tag]
           /\ TagsOf(added) = fresh
           /\ Len(added) = Cardinality(fresh)
           /\ \A j, k \in 1..Len(added) :
                j < k =>
                  \E a, b \in 1..Len(suggested_tags) :
                     /\ a < b
                     /\ suggested_tags[a] = added[j].tag
                     /\ suggested_tags[b] = added[k].tag
                     /\ \A c \in 1..(b - 1) : suggested_tags[c] # added[k].tag

\* C7 witness: an item that carried the tag "a" twice and was suggested "A" and
\* "a" got "A" appended.
C7_Witness ==
    /\ updateOutcome = "written"
    /\ fetchedTags = <<[tag |-> <<"a">>], [tag |-> <<"a">>]>>
    /\ suggested_tags = << <<"A">>, <<"a">> >>
    /\ Len(catalogTags) = 3

\* The variables the environment gives no value: unset or set to the empty
\* string; the library type, unset, has the value 'group'.
WithoutValue ==
    {k \in Range(EnvVars) :
        env[k] = "empty" \/ (env[k] = "unset" /\ k # "ZOTERO_LIBRARY_TYPE")}

\* C8: when a required value is missing, startup fails before any catalog call
\* and the error names, once each and in the order of required_vars, exactly the
\* variables without a value; an unset library type is not among them; and
\* startup fails for no other reason.
C8_StartupFailsNamingMissing ==
    /\ (pc # "start" /\ WithoutValue # {})
          => /\ pc = "failed"
             /\ ~catalogCalled
             /\ Range(error) = WithoutValue
             /\ Len(error) = Cardinality(WithoutValue)
             /\ \A j, k \in 1..Len(error) :
                  j < k => \E a, b \in 1..Len(EnvVars) :
                              a < b /\ EnvVars[a] = error[j] /\ EnvVars[b] = error[k]
    /\ (pc = "failed" => WithoutValue # {})

\* C8 witness: only the language-model key is missing, the library type is
\* unset, and startup failed naming the key alone.
C8_Witness ==
    /\ pc = "failed"
    /\ env["ANTHROPIC_API_KEY"] = "unset"
    /\ env["ZOTERO_LIBRARY_TYPE"] = "unset"
    /\ error = <<"ANTHROPIC_API_KEY">>

\* C9: a run that starts on a tags file a former run has written holds, after
\* load_existing_tags, the very set that run wrote.
C9_RoundTrip ==
    (pc = "ready" /\ options.tags_file /\ written.valid)
        => existing_tags = written.tags

\* C10: "Tags updated successfully" is logged for an item only if the catalog
\* write for that item completed.
C10_SuccessLoggedOnlyIfWritten ==
    (\E k \in 1..Len(log) : log[k] = "Tags updated successfully")
        => updateOutcome = "written"

====
